---- MODULE Spec2Model ----
(***************************************************************************)
(* Model of the BottleCanGowhere Telegram bot (src/main.py): the Registry  *)
(* (bot_data['df']), the three ConversationHandlers registered in groups   *)
(* 2, 3 and 4, the per-user scratch data (context.user_data) and the       *)
(* handlers of the Find, Report and Reminder flows.                        *)
(*                                                                         *)
(* Texts are sequences of one-character strings, so that str.lower,        *)
(* str.isdigit, str.isalnum and int() are computed character by character. *)
(* Coordinates are hundredths of a degree; distances are millimetres.      *)
(* Every update is a new message of a private chat (update.message is set, *)
(* one conversation key per user) and the transport delivers every reply.  *)
(***************************************************************************)
EXTENDS Integers, Sequences, FiniteSets, TLC

\* ------------------------------------------------------------------------
\* Bounds of the model
\* ------------------------------------------------------------------------
\* Largest number of rows of data.csv
MaxRVMs == 4

\* Number of rows of data.csv when two users share the Registry
SharedRVMs == 3

\* ------------------------------------------------------------------------
\* Conversation states (main.py 28-31) and ConversationHandler.END
\* ------------------------------------------------------------------------
FIND_RVM_LOCATION == 0
REPORT_LOCATION == 1
REPORT_RVM == 2
REPORT_STATUS == 3
REMINDER_FREQ == 4
REMINDER_DAY == 5
REMINDER_TIME == 6
\* ConversationHandler.END; a conversation that returned END holds no state
END == -1

\* ------------------------------------------------------------------------
\* Texts
\* ------------------------------------------------------------------------
UpperCase == <<"A","B","C","D","E","F","G","H","I","J","K","L","M",
               "N","O","P","Q","R","S","T","U","V","W","X","Y","Z">>
LowerCase == <<"a","b","c","d","e","f","g","h","i","j","k","l","m",
               "n","o","p","q","r","s","t","u","v","w","x","y","z">>
Decimal == <<"0","1","2","3","4","5","6","7","8","9">>

\* str.lower() on one character
LowerChar(c) ==
    IF \E i \in 1..Len(UpperCase) : UpperCase[i] = c
    THEN LowerCase[CHOOSE i \in 1..Len(UpperCase) : UpperCase[i] = c]
    ELSE c

\* str.lower()
Lower(t) == [i \in 1..Len(t) |-> LowerChar(t[i])]

Working == <<"W","o","r","k","i","n","g">>
WORKING_UPPER == <<"W","O","R","K","I","N","G">>
working == <<"w","o","r","k","i","n","g">>
Full == <<"F","u","l","l">>
OutOfOrder == <<"O","u","t"," ","o","f"," ","O","r","d","e","r">>
OtherIssues == <<"O","t","h","e","r"," ","I","s","s","u","e","s">>
Monthly == <<"M","o","n","t","h","l","y">>
Weekly == <<"W","e","e","k","l","y">>
Broken == <<"B","r","o","k","e","n">>

\* The status keyboard of report_rvm_choice (main.py 183)
StatusKeyboard == {Working, Full, OutOfOrder, OtherIssues}

\* ------------------------------------------------------------------------
\* Registry: bot_data['df'], read from data.csv (main.py 326, 336)
\* ------------------------------------------------------------------------
\* Points of the map: <<Latitude, Longitude>> in hundredths of a degree
Points == {<<130, 10380>>, <<130, 10381>>, <<131, 10381>>, <<132, 10383>>}

\* Name of the i-th row: names are unique within the Registry
RowName(i) == <<UpperCase[i]>>

\* The i-th row of data.csv at point p
Row(i, p) ==
    [Name |-> RowName(i), Latitude |-> p[1], Longitude |-> p[2],
     Address |-> <<"a", Decimal[i + 1]>>, Description |-> <<"d">>,
     Hours |-> <<"2", "4", "h">>, Status |-> Working,
     Nearby |-> IF i % 2 = 0 THEN <<"N", "o", "n", "e">> ELSE <<"b", "i", "n">>]

\* The columns other than Status
Fixed(r) ==
    [Name |-> r.Name, Latitude |-> r.Latitude, Longitude |-> r.Longitude,
     Address |-> r.Address, Description |-> r.Description, Hours |-> r.Hours,
     Nearby |-> r.Nearby]

\* The columns of data.csv
Columns ==
    <<"Name", "Latitude", "Longitude", "Address", "Description", "Hours", "Status", "Nearby">>

\* A table that keeps only the column names
to_csv_header(d) == <<Columns>>

\* df.to_csv('data.csv', index=False) (main.py 320): the file written, the
\* column names and then one line of fields per row, without the index
to_csv(d) == <<Columns>> \o [i \in 1..Len(d) |-> [k \in 1..Len(Columns) |-> d[i][Columns[k]]]]

\* ------------------------------------------------------------------------
\* distance (main.py 290-302): haversine, tabulated in millimetres on Points.
\* On these points the table orders and ties exactly as the floats do.
\* ------------------------------------------------------------------------
distance(lon1, lat1, lon2, lat2) ==
    LET r == <<lon1, lat1, lon2, lat2>> IN
    CASE r = <<10380, 130, 10380, 130>> -> 0
      [] r = <<10380, 130, 10381, 130>> -> 1111663
      [] r = <<10380, 130, 10381, 131>> -> 1572330
      [] r = <<10380, 130, 10383, 132>> -> 4008465
      [] r = <<10381, 130, 10380, 130>> -> 1111663
      [] r = <<10381, 130, 10381, 130>> -> 0
      [] r = <<10381, 130, 10381, 131>> -> 1111949
      [] r = <<10381, 130, 10383, 132>> -> 3144656
      [] r = <<10381, 131, 10380, 130>> -> 1572330
      [] r = <<10381, 131, 10381, 130>> -> 1111949
      [] r = <<10381, 131, 10381, 131>> -> 0
      [] r = <<10381, 131, 10383, 132>> -> 2485870
      [] r = <<10383, 132, 10380, 130>> -> 4008465
      [] r = <<10383, 132, 10381, 130>> -> 3144656
      [] r = <<10383, 132, 10381, 131>> -> 2485870
      [] r = <<10383, 132, 10383, 132>> -> 0

\* ------------------------------------------------------------------------
\* The nearest-machine ranking (main.py 116-121 and 159-164)
\* ------------------------------------------------------------------------
\* df.copy() with the 'distances' column; index is the row label of df
WithDistances(d, curr_latitude, curr_longitude) ==
    [i \in 1..Len(d) |->
        [index |-> i, Name |-> d[i].Name, Latitude |-> d[i].Latitude,
         Longitude |-> d[i].Longitude, Address |-> d[i].Address,
         Description |-> d[i].Description, Hours |-> d[i].Hours,
         Status |-> d[i].Status, Nearby |-> d[i].Nearby,
         distances |-> distance(d[i].Longitude, d[i].Latitude,
                                curr_longitude, curr_latitude)]]

\* The orders sort_values('distances') may produce. The default kind is
\* 'quicksort', which is not stable: rows of equal distance come out in an
\* order the numpy build decides. Sorted(dc, left) are the ascending orders
\* of the rows whose positions are in left: any row of least distance first.
RECURSIVE Sorted(_, _)
Sorted(dc, left) ==
    IF left = {} THEN {<<>>}
    ELSE UNION {{<<dc[i]>> \o rest : rest \in Sorted(dc, left \ {i})} :
                i \in {j \in left : \A k \in left : dc[j].distances <= dc[k].distances}}

SortValues(dc) == Sorted(dc, 1..Len(dc))

\* A slice that starts one row late: .iloc[1:4]
Iloc14(s) == SubSeq(s, 2, IF Len(s) < 4 THEN Len(s) ELSE 4)

\* .iloc[0:3]
Iloc03(s) == SubSeq(s, 1, IF Len(s) < 3 THEN Len(s) ELSE 3)

\* .iloc[0:2]
Iloc02(s) == SubSeq(s, 1, IF Len(s) < 2 THEN Len(s) ELSE 2)

\* The values result_df can take
NearestRvms(d, curr_latitude, curr_longitude) ==
    {Iloc03(s) : s \in SortValues(WithDistances(d, curr_latitude, curr_longitude))}

\* ------------------------------------------------------------------------
\* State
\* ------------------------------------------------------------------------
VARIABLES
    df,         \* application.bot_data['df']: the Registry, a sequence of rows
    conv,       \* per user, the state each ConversationHandler holds
    user_data,  \* per user, context.user_data: a function from keys to values
    update,     \* the update process_update handled last
    reply,      \* the message reply_text sent last
    request,    \* the geocoder call made while that update was handled
    pc,         \* where main() is: "run_polling", "finally" or "exited"
    data_csv    \* the file data.csv: the line of column names, then the rows

vars == <<df, conv, user_data, update, reply, request, pc, data_csv>>

\* The three ConversationHandlers, in the order of their groups (main.py 373-375)
Handlers == <<"find_rvm_conv_handler", "report_rvm_conv_handler", "reminder_conv_handler">>

\* entry_points of each ConversationHandler (main.py 339, 350, 361)
EntryCommand(h) ==
    CASE h = "find_rvm_conv_handler" -> "find"
      [] h = "report_rvm_conv_handler" -> "report"
      [] h = "reminder_conv_handler" -> "set"


\* An empty dict
EmptyDict == [k \in {} |-> k]

\* dict[k] = v
Put(d, k, v) == [x \in (DOMAIN d) \cup {k} |-> IF x = k THEN v ELSE d[x]]

\* ------------------------------------------------------------------------
\* Updates
\* ------------------------------------------------------------------------
CommandUpdate(u, c) == [user |-> u, kind |-> "command", command |-> c, text |-> <<>>, point |-> <<>>]
TextUpdate(u, t) == [user |-> u, kind |-> "text", command |-> "", text |-> t, point |-> <<>>]
LocationUpdate(u, p) == [user |-> u, kind |-> "location", command |-> "", text |-> <<>>, point |-> p]

\* ------------------------------------------------------------------------
\* Replies
\* ------------------------------------------------------------------------
\* A reply_text call of handler `by`: rows are the machines it renders,
\* rvm_name and status the machine and status it confirms, alternatives
\* whether it holds the alternative-machines section
Message(u, by, rows, rvm_name, status, alternatives) ==
    [to |-> u, by |-> by, rows |-> rows, rvm_name |-> rvm_name,
     status |-> status, alternatives |-> alternatives]

Plain(u, by) == Message(u, by, <<>>, <<>>, <<>>, FALSE)

\* ------------------------------------------------------------------------
\* What a handler leaves behind: the Registry, the user's user_data, the last
\* reply, and either the state it returned or the fact that it raised
\* ------------------------------------------------------------------------
\* and the call to the geocoder it made
NoRequest == [made |-> FALSE, query |-> <<>>, response |-> ""]

Return(d, ud, r, ret) ==
    [df |-> d, ud |-> ud, reply |-> r, ret |-> ret, raised |-> FALSE, request |-> NoRequest]

\* error_handler (main.py 285-288) replies; the conversation keeps its state
Raise(d, ud, u) ==
    [df |-> d, ud |-> ud, reply |-> Plain(u, "error_handler"), ret |-> END, raised |-> TRUE,
     request |-> NoRequest]

\* ------------------------------------------------------------------------
\* Character tests and conversions of str
\* ------------------------------------------------------------------------
Chars(seq) == {seq[i] : i \in 1..Len(seq)}

\* "SUP2" stands for the one character U+00B2 (superscript two): str.isdigit
\* accepts it and int() raises ValueError on it
IsDecimalChar(c) == c \in Chars(Decimal)
IsDigitChar(c) == IsDecimalChar(c) \/ c = "SUP2"
IsAlnumChar(c) == IsDigitChar(c) \/ c \in Chars(UpperCase) \/ c \in Chars(LowerCase)

\* str.isdigit(), str.isalnum(): false on the empty string
isdigit(t) == Len(t) > 0 /\ \A i \in 1..Len(t) : IsDigitChar(t[i])
isalnum(t) == Len(t) > 0 /\ \A i \in 1..Len(t) : IsAlnumChar(t[i])

\* str.replace(" ", "")
RemoveSpaces(t) == SelectSeq(t, LAMBDA c : c # " ")

\* str.strip()
RECURSIVE strip(_)
strip(t) ==
    IF Len(t) = 0 THEN t
    ELSE IF t[1] = " " THEN strip(Tail(t))
    ELSE IF t[Len(t)] = " " THEN strip(SubSeq(t, 1, Len(t) - 1))
    ELSE t

\* int() of a text of decimal characters; IntRaises where int() raises ValueError
DigitValue(c) == (CHOOSE i \in 1..Len(Decimal) : Decimal[i] = c) - 1
RECURSIVE int(_)
int(t) == IF Len(t) = 0 THEN 0 ELSE 10 * int(SubSeq(t, 1, Len(t) - 1)) + DigitValue(t[Len(t)])
IntRaises(t) == Len(t) = 0 \/ \E i \in 1..Len(t) : ~IsDecimalChar(t[i])

\* A day check whose lower limit is 0
validate_reminder_day_from_0(day) ==
    IF ~isdigit(day) THEN "False"
    ELSE IF IntRaises(day) THEN "ValueError"
    ELSE IF 0 <= int(day) /\ int(day) <= 31 THEN "True" ELSE "False"

\* validate_reminder_day (main.py 304-306): "True", "False" or "ValueError"
validate_reminder_day(day) ==
    IF ~isdigit(day) THEN "False"
    ELSE IF IntRaises(day) THEN "ValueError"
    ELSE IF 1 <= int(day) /\ int(day) <= 31 THEN "True" ELSE "False"

\* A time check whose hour limit is inclusive
validate_reminder_time_to_24(time) ==
    IF ~isdigit(time) THEN "False"
    ELSE IF Len(time) # 4 THEN "False"
    ELSE IF IntRaises(SubSeq(time, 1, 2)) THEN "ValueError"
    ELSE IF ~(0 <= int(SubSeq(time, 1, 2)) /\ int(SubSeq(time, 1, 2)) <= 24) THEN "False"
    ELSE IF IntRaises(SubSeq(time, 3, 4)) THEN "ValueError"
    ELSE IF 0 <= int(SubSeq(time, 3, 4)) /\ int(SubSeq(time, 3, 4)) < 60 THEN "True" ELSE "False"

\* validate_reminder_time (main.py 308-310): "True", "False" or "ValueError"
validate_reminder_time(time) ==
    IF ~isdigit(time) THEN "False"
    ELSE IF Len(time) # 4 THEN "False"
    ELSE IF IntRaises(SubSeq(time, 1, 2)) THEN "ValueError"
    ELSE IF ~(0 <= int(SubSeq(time, 1, 2)) /\ int(SubSeq(time, 1, 2)) < 24) THEN "False"
    ELSE IF IntRaises(SubSeq(time, 3, 4)) THEN "ValueError"
    ELSE IF 0 <= int(SubSeq(time, 3, 4)) /\ int(SubSeq(time, 3, 4)) < 60 THEN "True" ELSE "False"

\* ------------------------------------------------------------------------
\* Find flow
\* ------------------------------------------------------------------------
\* find_rvm_start (main.py 67-80)
find_rvm_start(d, ud, r, u, upd) ==
    {Return(d, ud, Plain(u, "find_rvm_start"), FIND_RVM_LOCATION)}

\* The answers of the geocoder: no result (found = 0), a body that is no
\* JSON, a JSON document without the expected fields, or a result
Failures == {"zero results", "not JSON", "malformed"}

\* client.get(url) with the query (main.py 102-105) and its answer
Get(query, response) == [made |-> TRUE, query |-> query, response |-> response]

\* A lookup without the local validation: every query is sent
get_lat_long_unvalidated(query) ==
    {[raises |-> "ValueError", value |-> <<>>, request |-> Get(query, "zero results")],
     [raises |-> "ValueError", value |-> <<>>, request |-> Get(query, "not JSON")],
     [raises |-> "Exception", value |-> <<>>, request |-> Get(query, "malformed")]}
    \cup {[raises |-> "", value |-> p, request |-> Get(query, "found")] : p \in Points}

\* get_lat_long_from_query (main.py 98-110): the outcomes of the lookup.
\* "ValueError" is the local rejection, the zero-result answer and a body
\* that is no JSON (JSONDecodeError is a ValueError); "Exception" is the
\* KeyError of a malformed document; "" is a found answer, value its
\* <<lat, lon>>.
get_lat_long_from_query(query) ==
    IF ~isalnum(RemoveSpaces(query))
    THEN {[raises |-> "ValueError", value |-> <<>>, request |-> NoRequest]}
    ELSE get_lat_long_unvalidated(query)

\* find_nearest_rvms (main.py 112-139): the replies it may send
find_nearest_rvms(d, u, curr_latitude, curr_longitude) ==
    {Message(u, "find_nearest_rvms", result_df, <<>>, <<>>, FALSE) :
        result_df \in NearestRvms(d, curr_latitude, curr_longitude)}

\* A find_rvm_location that ends the conversation when the lookup fails
find_rvm_location_gives_up(d, ud, r, u, upd) ==
    LET Found(p) == {Return(d, EmptyDict, m, END) : m \in find_nearest_rvms(d, u, p[1], p[2])}
        Outcome(o) ==
            IF o.raises = "ValueError"
            THEN {[Return(d, ud, Plain(u, "find_rvm_location"), END)
                        EXCEPT !.request = o.request]}
            ELSE IF o.raises = "Exception" THEN {[Raise(d, ud, u) EXCEPT !.request = o.request]}
            ELSE {[x EXCEPT !.request = o.request] : x \in Found(o.value)}
    IN  IF upd.kind = "location" THEN Found(upd.point)
        ELSE UNION {Outcome(o) : o \in get_lat_long_from_query(strip(upd.text))}

\* find_rvm_location (main.py 82-96)
find_rvm_location(d, ud, r, u, upd) ==
    LET Found(p) == {Return(d, EmptyDict, m, END) : m \in find_nearest_rvms(d, u, p[1], p[2])}
        Outcome(o) ==
            IF o.raises = "ValueError"
            THEN {[Return(d, ud, Plain(u, "find_rvm_location"), FIND_RVM_LOCATION)
                        EXCEPT !.request = o.request]}
            ELSE IF o.raises = "Exception" THEN {[Raise(d, ud, u) EXCEPT !.request = o.request]}
            ELSE {[x EXCEPT !.request = o.request] : x \in Found(o.value)}
    IN  IF upd.kind = "location" THEN Found(upd.point)
        ELSE UNION {Outcome(o) : o \in get_lat_long_from_query(strip(upd.text))}

\* ------------------------------------------------------------------------
\* Report flow
\* ------------------------------------------------------------------------
\* report_rvm_start (main.py 141-152)
report_rvm_start(d, ud, r, u, upd) ==
    {Return(d, ud, Plain(u, "report_rvm_start"), REPORT_LOCATION)}

\* report_rvm_location (main.py 154-174)
report_rvm_location(d, ud, r, u, upd) ==
    {Return(d, Put(ud, "nearest_rvms", result_df),
            Message(u, "report_rvm_location", result_df, <<>>, <<>>, FALSE), REPORT_RVM) :
        result_df \in NearestRvms(d, upd.point[1], upd.point[2])}

\* nearest_rvms.loc[nearest_rvms['Name'] == name]: the matching rows, in order
LocName(nearest_rvms, name) == SelectSeq(nearest_rvms, LAMBDA row : row.Name = name)

\* A report_rvm_choice that trusts the input: no lookup among the candidates
report_rvm_choice_trusting(d, ud, r, u, upd) ==
    LET user_choice == upd.text
        ud1 == Put(ud, "selected_rvm", user_choice)
    IN  {Return(d, ud1, Message(u, "report_rvm_choice", <<>>, user_choice, <<>>, FALSE),
                REPORT_STATUS)}

\* report_rvm_choice (main.py 176-188)
report_rvm_choice(d, ud, r, u, upd) ==
    LET user_choice == upd.text
        ud1 == Put(ud, "selected_rvm", user_choice)
    IN  IF "nearest_rvms" \notin DOMAIN ud1 THEN {Raise(d, ud1, u)}
        ELSE IF LocName(ud1["nearest_rvms"], user_choice) = <<>> THEN {Raise(d, ud1, u)}
        ELSE {Return(d, ud1,
                     Message(u, "report_rvm_choice", <<>>,
                             LocName(ud1["nearest_rvms"], user_choice)[1].Name, <<>>, FALSE),
                     REPORT_STATUS)}

\* A write that misses the row: nothing is assigned
SetStatusNoRow(d, rvm_name, user_choice) == d

\* A write without the row mask: every row is assigned
SetStatusEveryRow(d, rvm_name, user_choice) ==
    [i \in 1..Len(d) |-> [d[i] EXCEPT !.Status = user_choice]]

\* A write that keeps a status already reported: the first report wins
SetStatusFirstWins(d, rvm_name, user_choice) ==
    [i \in 1..Len(d) |->
        IF d[i].Name = rvm_name /\ d[i].Status = Working
        THEN [d[i] EXCEPT !.Status = user_choice] ELSE d[i]]

\* bot_data['df'].loc[df['Name'] == rvm_name, 'Status'] = user_choice (main.py 197)
SetStatus(d, rvm_name, user_choice) ==
    [i \in 1..Len(d) |-> IF d[i].Name = rvm_name THEN [d[i] EXCEPT !.Status = user_choice] ELSE d[i]]

\* A comparison that is case-sensitive
NotWorkingExact(user_choice) == user_choice # Working

\* user_choice.lower() != "working" (main.py 201)
NotWorking(user_choice) == Lower(user_choice) # working

\* A drop that removes nothing
DropNothing(nearest_rvms, selected_rvm_index) == nearest_rvms

\* nearest_rvms.drop(selected_rvm_index) (main.py 206): by row label
Drop(nearest_rvms, selected_rvm_index) ==
    SelectSeq(nearest_rvms, LAMBDA row : row.index # selected_rvm_index)

\* The alternative 2 locations (main.py 203-206)
AlternativeRvms(nearest_rvms, selected_rvm) ==
    Iloc02(Drop(nearest_rvms, LocName(nearest_rvms, selected_rvm)[1].index))

\* report_rvm_status (main.py 190-225)
report_rvm_status(d, ud, r, u, upd) ==
    LET user_choice == upd.text
        ud1 == Put(ud, "rvm_status", user_choice)
    IN  IF "nearest_rvms" \notin DOMAIN ud1 \/ "selected_rvm" \notin DOMAIN ud1
        THEN {Raise(d, ud1, u)}
        ELSE IF LocName(ud1["nearest_rvms"], ud1["selected_rvm"]) = <<>>
        THEN {Raise(d, ud1, u)}
        ELSE
            LET rvm_name == LocName(ud1["nearest_rvms"], ud1["selected_rvm"])[1].Name
                d1 == SetStatus(d, rvm_name, user_choice)
            IN  {Return(d1, EmptyDict,
                        IF NotWorking(user_choice)
                        THEN Message(u, "report_rvm_status",
                                     AlternativeRvms(ud1["nearest_rvms"], ud1["selected_rvm"]),
                                     rvm_name, user_choice, TRUE)
                        ELSE Message(u, "report_rvm_status", <<>>, rvm_name, user_choice, FALSE),
                        END)}

\* ------------------------------------------------------------------------
\* Reminder flow
\* ------------------------------------------------------------------------
\* set_reminder (main.py 227-234)
set_reminder(d, ud, r, u, upd) ==
    {Return(d, ud, Plain(u, "set_reminder"), REMINDER_FREQ)}

\* reminder_freq (main.py 236-250)
reminder_freq(d, ud, r, u, upd) ==
    LET user_choice == upd.text
        ud1 == Put(ud, "reminder_freq", user_choice)
    IN  IF user_choice = Monthly
        THEN {Return(d, ud1, Plain(u, "reminder_freq"), REMINDER_DAY)}
        ELSE {Return(d, ud1, Plain(u, "reminder_freq"), END)}

\* reminder_day (main.py 252-260)
reminder_day(d, ud, r, u, upd) ==
    LET day == upd.text
        valid == validate_reminder_day(day)
    IN  IF valid = "ValueError" THEN {Raise(d, ud, u)}
        ELSE IF valid = "False" THEN {Return(d, ud, Plain(u, "reminder_day"), REMINDER_DAY)}
        ELSE {Return(d, Put(ud, "reminder_day", day), Plain(u, "reminder_day"), REMINDER_TIME)}

\* reminder_time (main.py 262-279)
reminder_time(d, ud, r, u, upd) ==
    LET time == upd.text
        valid == validate_reminder_time(time)
        ud1 == Put(ud, "reminder_time", time)
    IN  IF valid = "ValueError" THEN {Raise(d, ud, u)}
        ELSE IF valid = "False" THEN {Return(d, ud, Plain(u, "reminder_time"), REMINDER_TIME)}
        ELSE IF "reminder_freq" \notin DOMAIN ud1 \/ "reminder_day" \notin DOMAIN ud1
        THEN {Raise(d, ud1, u)}
        ELSE {Return(d, EmptyDict, Plain(u, "reminder_time"), END)}

\* A cancel that ends the conversation and keeps the scratch data
cancel_keeps_data(d, ud, r, u, upd) == {Return(d, ud, r, END)}

\* cancel (main.py 49-52)
cancel(d, ud, r, u, upd) == {Return(d, EmptyDict, r, END)}

\* ------------------------------------------------------------------------
\* ConversationHandler dispatch (main.py 338-369)
\* ------------------------------------------------------------------------
\* The handler of `states` that takes the update in the given state, "" if none
StateHandler(h, state, upd) ==
    CASE h = "find_rvm_conv_handler" /\ state = FIND_RVM_LOCATION
            /\ upd.kind \in {"location", "text"} -> "find_rvm_location"
      [] h = "report_rvm_conv_handler" /\ state = REPORT_LOCATION
            /\ upd.kind = "location" -> "report_rvm_location"
      [] h = "report_rvm_conv_handler" /\ state = REPORT_RVM
            /\ upd.kind = "text" -> "report_rvm_choice"
      [] h = "report_rvm_conv_handler" /\ state = REPORT_STATUS
            /\ upd.kind = "text" -> "report_rvm_status"
      [] h = "reminder_conv_handler" /\ state = REMINDER_FREQ
            /\ upd.kind = "text" -> "reminder_freq"
      [] h = "reminder_conv_handler" /\ state = REMINDER_DAY
            /\ upd.kind = "text" -> "reminder_day"
      [] h = "reminder_conv_handler" /\ state = REMINDER_TIME
            /\ upd.kind = "text" -> "reminder_time"
      [] OTHER -> ""

\* A ConversationHandler without fallbacks
CallbackNoFallback(h, state, upd) ==
    IF upd.kind = "command" /\ upd.command = EntryCommand(h)
    THEN CASE h = "find_rvm_conv_handler" -> "find_rvm_start"
           [] h = "report_rvm_conv_handler" -> "report_rvm_start"
           [] h = "reminder_conv_handler" -> "set_reminder"
    ELSE IF state = END THEN ""
    ELSE StateHandler(h, state, upd)

\* The callback the ConversationHandler h selects for the update: its entry
\* point (allow_reentry=True: in any state), else the handler of the current
\* state, else the fallback for commands, else none ("")
Callback(h, state, upd) ==
    IF upd.kind = "command" /\ upd.command = EntryCommand(h)
    THEN CASE h = "find_rvm_conv_handler" -> "find_rvm_start"
           [] h = "report_rvm_conv_handler" -> "report_rvm_start"
           [] h = "reminder_conv_handler" -> "set_reminder"
    ELSE IF state = END THEN ""
    ELSE IF StateHandler(h, state, upd) # "" THEN StateHandler(h, state, upd)
    ELSE IF upd.kind = "command" THEN "cancel"
    ELSE ""

\* The outcomes of running a callback
Run(callback, d, ud, r, u, upd) ==
    CASE callback = "find_rvm_start" -> find_rvm_start(d, ud, r, u, upd)
      [] callback = "find_rvm_location" -> find_rvm_location(d, ud, r, u, upd)
      [] callback = "report_rvm_start" -> report_rvm_start(d, ud, r, u, upd)
      [] callback = "report_rvm_location" -> report_rvm_location(d, ud, r, u, upd)
      [] callback = "report_rvm_choice" -> report_rvm_choice(d, ud, r, u, upd)
      [] callback = "report_rvm_status" -> report_rvm_status(d, ud, r, u, upd)
      [] callback = "set_reminder" -> set_reminder(d, ud, r, u, upd)
      [] callback = "reminder_freq" -> reminder_freq(d, ud, r, u, upd)
      [] callback = "reminder_day" -> reminder_day(d, ud, r, u, upd)
      [] callback = "reminder_time" -> reminder_time(d, ud, r, u, upd)
      [] callback = "cancel" -> cancel(d, ud, r, u, upd)

\* One ConversationHandler handling the update from the state s of the
\* dispatch: s.cv is the user's conversation states. A callback that raised
\* leaves the conversation's state as it was.
Conversation(h, s, u, upd) ==
    LET callback == Callback(h, s.cv[h], upd) IN
    IF callback = "" THEN {s}
    ELSE {[df |-> o.df, ud |-> o.ud, reply |-> o.reply,
           cv |-> IF o.raised THEN s.cv ELSE [s.cv EXCEPT ![h] = o.ret],
           request |-> IF o.request.made THEN o.request ELSE s.request] :
            o \in Run(callback, s.df, s.ud, s.reply, u, upd)}

\* start and about, group 1 (main.py 33-65, 371-372)
Group1(s, u, upd) ==
    IF upd.kind = "command" /\ upd.command \in {"start", "about"}
    THEN [s EXCEPT !.reply = Plain(u, upd.command)]
    ELSE s

\* Application.process_update: the groups in order, each on the result of the
\* one before (main.py 371-375)
Dispatch(u, upd) ==
    LET s1 == Group1([df |-> df, ud |-> user_data[u], reply |-> reply, cv |-> conv[u],
                      request |-> NoRequest], u, upd)
        S2 == Conversation(Handlers[1], s1, u, upd)
        S3 == UNION {Conversation(Handlers[2], s, u, upd) : s \in S2}
    IN  UNION {Conversation(Handlers[3], s, u, upd) : s \in S3}

\* An update arrives while run_polling runs (main.py 384)
ProcessUpdate(u, upd) ==
    /\ pc = "run_polling"
    /\ UNCHANGED <<pc, data_csv>>
    /\ \E s \in Dispatch(u, upd) :
            /\ df' = s.df
            /\ user_data' = [user_data EXCEPT ![u] = s.ud]
            /\ conv' = [conv EXCEPT ![u] = s.cv]
            /\ reply' = s.reply
            /\ request' = s.request
            /\ update' = upd

\* ------------------------------------------------------------------------
\* Inputs
\* ------------------------------------------------------------------------
\* Where the rows of data.csv lie: rows 2 and 3 share a point
Layout == <<<<130, 10380>>, <<130, 10381>>, <<130, 10381>>, <<131, 10381>>,
            <<131, 10381>>, <<132, 10383>>>>
Place(i) == Layout[((i - 1) % Len(Layout)) + 1]

\* The locations users share
Locations == {<<130, 10380>>, <<131, 10381>>}

\* The texts users type
Queries == {<<"5", "2">>, <<"A", " ", "1">>, <<"!", "!", "!">>, <<"5", "-", "2">>}
Choices == {RowName(i) : i \in 1..MaxRVMs} \cup {<<"?">>}
Statuses == {Working, working, Full, Broken}
Frequencies == {Monthly, Weekly}
Days == {<<"5">>, <<"3", "2">>, <<"SUP2">>}
Times == {<<"1", "0", "3", "0">>, <<"2", "4", "0", "0">>}

\* ------------------------------------------------------------------------
\* Actions: one update of user u, handled by every group
\* ------------------------------------------------------------------------
NoUpdate == [user |-> "", kind |-> "", command |-> "", text |-> <<>>, point |-> <<>>]

\* The state after main() has built the application, for the given users and
\* a data.csv of n rows
InitWith(users, n) ==
    /\ df = [i \in 1..n |-> Row(i, Place(i))]
    /\ conv = [u \in users |-> [h \in {Handlers[i] : i \in 1..Len(Handlers)} |-> END]]
    /\ user_data = [u \in users |-> EmptyDict]
    /\ update = NoUpdate
    /\ reply = Plain("", "")
    /\ request = NoRequest
    /\ pc = "run_polling"
    /\ data_csv = to_csv(df)

Users == DOMAIN conv

\* A command: the entry point of its flow, the fallback of the others
Start(u) == ProcessUpdate(u, CommandUpdate(u, "start"))
About(u) == ProcessUpdate(u, CommandUpdate(u, "about"))
Cancel(u) == ProcessUpdate(u, CommandUpdate(u, "cancel"))
FindRvmStart(u) == ProcessUpdate(u, CommandUpdate(u, "find"))
ReportRvmStart(u) == ProcessUpdate(u, CommandUpdate(u, "report"))
SetReminder(u) == ProcessUpdate(u, CommandUpdate(u, "set"))

\* A location or a text, in the state that takes it
FindRvmLocation(u, locations, queries) ==
    /\ conv[u]["find_rvm_conv_handler"] = FIND_RVM_LOCATION
    /\ \/ \E p \in locations : ProcessUpdate(u, LocationUpdate(u, p))
       \/ \E t \in queries : ProcessUpdate(u, TextUpdate(u, t))
ReportRvmLocation(u, locations) ==
    /\ conv[u]["report_rvm_conv_handler"] = REPORT_LOCATION
    /\ \E p \in locations : ProcessUpdate(u, LocationUpdate(u, p))
ReportRvmChoice(u, choices) ==
    /\ conv[u]["report_rvm_conv_handler"] = REPORT_RVM
    /\ \E t \in choices : ProcessUpdate(u, TextUpdate(u, t))
ReportRvmStatus(u, statuses) ==
    /\ conv[u]["report_rvm_conv_handler"] = REPORT_STATUS
    /\ \E t \in statuses : ProcessUpdate(u, TextUpdate(u, t))
ReminderFreq(u, frequencies) ==
    /\ conv[u]["reminder_conv_handler"] = REMINDER_FREQ
    /\ \E t \in frequencies : ProcessUpdate(u, TextUpdate(u, t))
ReminderDay(u, days) ==
    /\ conv[u]["reminder_conv_handler"] = REMINDER_DAY
    /\ \E t \in days : ProcessUpdate(u, TextUpdate(u, t))
ReminderTime(u, times) ==
    /\ conv[u]["reminder_conv_handler"] = REMINDER_TIME
    /\ \E t \in times : ProcessUpdate(u, TextUpdate(u, t))

\* ------------------------------------------------------------------------
\* Spec: one user, every flow, a Registry of up to MaxRVMs rows
\* ------------------------------------------------------------------------
Init == \E n \in 0..MaxRVMs : InitWith({"u1"}, n)

Next ==
    \E u \in Users :
        \/ Start(u)
        \/ About(u)
        \/ Cancel(u)
        \/ FindRvmStart(u)
        \/ ReportRvmStart(u)
        \/ SetReminder(u)
        \/ FindRvmLocation(u, Locations, Queries)
        \/ ReportRvmLocation(u, Locations)
        \/ ReportRvmChoice(u, Choices)
        \/ ReportRvmStatus(u, Statuses)
        \/ ReminderFreq(u, Frequencies)
        \/ ReminderDay(u, Days)
        \/ ReminderTime(u, Times)

Spec == Init /\ [][Next]_vars

\* ------------------------------------------------------------------------
\* SpecShared: two users on one Registry of SharedRVMs rows, every flow,
\* one input of each kind
\* ------------------------------------------------------------------------
InitShared == InitWith({"u1", "u2"}, SharedRVMs)

NextShared ==
    \E u \in Users :
        \/ Cancel(u)
        \/ FindRvmStart(u)
        \/ ReportRvmStart(u)
        \/ SetReminder(u)
        \/ FindRvmLocation(u, {<<131, 10381>>}, {<<"!">>})
        \/ ReportRvmLocation(u, {<<131, 10381>>})
        \/ ReportRvmChoice(u, {RowName(1), RowName(2)})
        \/ ReportRvmStatus(u, {Working, Full})
        \/ ReminderFreq(u, {Monthly})
        \/ ReminderDay(u, {<<"5">>})
        \/ ReminderTime(u, {<<"1", "0", "3", "0">>})

SpecShared == InitShared /\ [][NextShared]_vars

\* ------------------------------------------------------------------------
\* SpecRank: the nearest-machine ranking of the Find flow and of Report's
\* location step, over every placement of up to MaxRVMs rows on Points
\* ------------------------------------------------------------------------
InitRank ==
    \E n \in 0..MaxRVMs : \E place \in [1..n -> Points] :
        /\ df = [i \in 1..n |-> Row(i, place[i])]
        /\ conv = [u \in {"u1"} |-> [h \in {Handlers[i] : i \in 1..Len(Handlers)} |-> END]]
        /\ user_data = [u \in {"u1"} |-> EmptyDict]
        /\ update = NoUpdate
        /\ reply = Plain("", "")
        /\ request = NoRequest
        /\ pc = "run_polling"
        /\ data_csv = to_csv(df)

NextRank ==
    \E u \in Users :
        \/ FindRvmStart(u)
        \/ ReportRvmStart(u)
        \/ FindRvmLocation(u, Points, {<<"5", "2">>})
        \/ ReportRvmLocation(u, Points)

SpecRank == InitRank /\ [][NextRank]_vars

\* ------------------------------------------------------------------------
\* SpecFind: one user in the Find flow, a Registry of up to MaxRVMs rows
\* ------------------------------------------------------------------------
NextFind ==
    \E u \in Users :
        \/ Start(u)
        \/ Cancel(u)
        \/ FindRvmStart(u)
        \/ FindRvmLocation(u, Locations, Queries)

SpecFind == Init /\ [][NextFind]_vars

\* ------------------------------------------------------------------------
\* Shutdown (main.py 312-321, 378-387)
\* ------------------------------------------------------------------------
\* save_dataframe (main.py 318-321): the file after the save
save_dataframe(d) == to_csv(d)

\* The Registry a signal can find: the one between two updates or, when the
\* signal interrupts report_rvm_status, the one just after its write
\* (main.py 197)
InterruptedDf ==
    {df} \cup
    UNION {{s.df : s \in Dispatch(u, TextUpdate(u, t))} :
           u \in {v \in Users : conv[v]["report_rvm_conv_handler"] = REPORT_STATUS},
           t \in {Working, Full}}

\* signal_handler (main.py 312-316), where signal.signal's handler is the one
\* that runs: it saves, and sys.exit(0) unwinds run_polling into the finally
signal_handler ==
    /\ pc = "run_polling"
    /\ \E d \in InterruptedDf :
        /\ df' = d
        /\ data_csv' = save_dataframe(d)
    /\ pc' = "finally"
    /\ UNCHANGED <<conv, user_data, update, reply, request>>

\* run_polling returns (main.py 384): a normal stop, or a signal taken by the
\* stop-signal handlers run_polling installs over those of main.py 379-380
run_polling_returns ==
    /\ pc = "run_polling"
    /\ pc' = "finally"
    /\ UNCHANGED <<df, conv, user_data, update, reply, request, data_csv>>

\* finally (main.py 385-387): the save before the process exits
finally ==
    /\ pc = "finally"
    /\ data_csv' = save_dataframe(df)
    /\ pc' = "exited"
    /\ UNCHANGED <<df, conv, user_data, update, reply, request>>

\* SpecShutdown: one user reporting, and the ways main() ends
NextShutdown ==
    \/ \E u \in Users :
        \/ Cancel(u)
        \/ ReportRvmStart(u)
        \/ ReportRvmLocation(u, {<<131, 10381>>})
        \/ ReportRvmChoice(u, Choices)
        \/ ReportRvmStatus(u, {Working, Full})
    \/ signal_handler
    \/ run_polling_returns
    \/ finally

SpecShutdown == Init /\ [][NextShutdown]_vars

\* ------------------------------------------------------------------------
\* SpecReminder: one user in the Reminder flow, with the days and times of
\* the validation cases
\* ------------------------------------------------------------------------
DaysTried ==
    {<<"1">>, <<"5">>, <<"3", "1">>, <<"0", "5">>, <<"0">>, <<"3", "2">>,
     <<"a", "b", "c">>, <<"-", "1">>, <<"SUP2">>}
TimesTried ==
    {<<"1", "0", "3", "0">>, <<"0", "0", "0", "0">>, <<"2", "3", "5", "9">>,
     <<"2", "4", "0", "0">>, <<"9", "9">>, <<"1", "3", "0">>, <<"1", "2", "6", "0">>,
     <<"1", "2", "3", "4", "5">>, <<"1", "0", "a", "0">>, <<"1", "SUP2", "3", "0">>}

InitReminder == \E n \in 0..MaxRVMs : InitWith({"u1"}, n)

NextReminder ==
    \E u \in Users :
        \/ Start(u)
        \/ About(u)
        \/ SetReminder(u)
        \/ Cancel(u)
        \/ ReminderFreq(u, Frequencies)
        \/ ReminderDay(u, DaysTried)
        \/ ReminderTime(u, TimesTried)

SpecReminder == InitReminder /\ [][NextReminder]_vars

\* ------------------------------------------------------------------------
\* Properties
\* ------------------------------------------------------------------------
HandlerSet == {Handlers[i] : i \in 1..Len(Handlers)}

\* The step about to be taken is user u's text in Report's AwaitingStatus
\* state with a stored selection
StatusStepOf(u) ==
    /\ conv[u]["report_rvm_conv_handler"] = REPORT_STATUS
    /\ update'.user = u
    /\ update'.kind = "text"
    /\ "selected_rvm" \in DOMAIN user_data[u]

\* C1: when a session in AwaitingStatus whose stored selection is machine m
\* submits status s, then after the step the Registry record named m has
\* status s and the session has no active flow.
C1_ReportSetsStatus ==
    [][\A u \in Users :
        StatusStepOf(u) =>
            /\ \E i \in 1..Len(df') : df'[i].Name = user_data[u]["selected_rvm"]
            /\ \A i \in 1..Len(df') :
                df'[i].Name = user_data[u]["selected_rvm"] => df'[i].Status = update'.text
            /\ \A h \in HandlerSet : conv'[u][h] = END]_vars

\* A report of "Full" on a machine was confirmed and the Registry holds it
C1_Witness ==
    /\ reply.by = "report_rvm_status"
    /\ reply.status = Full
    /\ update.kind = "text"
    /\ \E i \in 1..Len(df) : df[i].Name = reply.rvm_name /\ df[i].Status = Full
    /\ \A h \in HandlerSet : conv[update.user][h] = END

\* C2: the set of Registry records and every field other than status never
\* change, and a record's status changes only in the AwaitingStatus step of
\* the Report flow and only for the record the session selected.
C2_RegistryFrame ==
    [][/\ Len(df') = Len(df)
       /\ \A i \in 1..Len(df) :
            /\ DOMAIN df'[i] = DOMAIN df[i]
            /\ Fixed(df'[i]) = Fixed(df[i])
            /\ df'[i].Status # df[i].Status =>
                \E u \in Users :
                    /\ StatusStepOf(u)
                    /\ user_data[u]["selected_rvm"] = df[i].Name]_vars

\* One user's report changed a status while the other user is mid-way
C2_Witness ==
    /\ \E i \in 1..Len(df) : df[i].Status = Full
    /\ \E i \in 1..Len(df) : df[i].Status = Working
    /\ \E u \in Users : u # update.user /\ \E h \in HandlerSet : conv[u][h] # END

\* C3: every Registry record's status is one of Working, Full, Out of Order,
\* Other Issues (an input outside these four is rejected in AwaitingStatus).
C3_StatusEnumerated == \A i \in 1..Len(df) : df[i].Status \in StatusKeyboard

\* The ranking of rows for the query point q: min(3, N) distinct Registry
\* records with their distances, in non-decreasing order of distance, and no
\* record left out strictly closer than one returned
Ranked(rows, q) ==
    /\ Len(rows) = (IF Len(df) < 3 THEN Len(df) ELSE 3)
    /\ \A i \in 1..Len(rows) :
        /\ rows[i].index \in 1..Len(df)
        /\ Fixed(rows[i]) = Fixed(df[rows[i].index])
        /\ rows[i].distances = distance(rows[i].Longitude, rows[i].Latitude, q[2], q[1])
    /\ \A i, j \in 1..Len(rows) :
        /\ i # j => rows[i].index # rows[j].index
        /\ i < j => rows[i].distances <= rows[j].distances
    /\ \A k \in 1..Len(df) :
        (\A i \in 1..Len(rows) : rows[i].index # k) =>
            \A i \in 1..Len(rows) :
                distance(df[k].Longitude, df[k].Latitude, q[2], q[1]) >= rows[i].distances

\* The rows the last update ranked, if it ranked any: those of the Find reply
\* or the candidates Report's location step presented
RankedNow == reply.by \in {"find_nearest_rvms", "report_rvm_location"}

\* C4: the nearest-machine ranking with k = 3 yields exactly min(3, N)
\* distinct Registry records, in non-decreasing order of distance to the
\* query point, and no record left out is strictly closer than one returned.
C4_NearestThree ==
    RankedNow =>
        IF update.kind = "location" THEN Ranked(reply.rows, update.point)
        ELSE \E q \in Points : Ranked(reply.rows, q)

\* A Registry of more than 3 rows was ranked and a row was left out
C4_Witness ==
    /\ RankedNow
    /\ update.kind = "location"
    /\ Len(df) > 3
    /\ Len(reply.rows) = 3
    /\ reply.rows[1].distances < reply.rows[3].distances

\* C5: records at equal distance appear in their original Registry order,
\* also across the top-3 cut-off, where the earlier record is the one returned.
C5_StableTies ==
    (RankedNow /\ update.kind = "location") =>
        /\ \A i, j \in 1..Len(reply.rows) :
            (i < j /\ reply.rows[i].distances = reply.rows[j].distances)
                => reply.rows[i].index < reply.rows[j].index
        /\ \A k \in 1..Len(df) : \A i \in 1..Len(reply.rows) :
            (/\ \A j \in 1..Len(reply.rows) : reply.rows[j].index # k
             /\ distance(df[k].Longitude, df[k].Latitude, update.point[2], update.point[1])
                    = reply.rows[i].distances)
                => reply.rows[i].index < k

\* The letter-case variants of "Working" among the statuses users type
WorkingAnyCase == {Working, working, WORKING_UPPER}

\* C6: in the AwaitingStatus step with a non-Working status, the alternative
\* machines of the response never include the reported machine, are taken
\* from the session's stored candidates in ascending distance order, and
\* number min(2, candidates - 1).
C6_Alternatives ==
    [][\A u \in Users :
        (/\ StatusStepOf(u)
         /\ update'.text \notin WorkingAnyCase
         /\ reply'.by = "report_rvm_status") =>
            LET candidates == user_data[u]["nearest_rvms"]
                alts == reply'.rows
            IN  /\ \A k \in 1..Len(alts) : alts[k].Name # user_data[u]["selected_rvm"]
                /\ Len(alts) = (IF Len(candidates) - 1 < 2 THEN Len(candidates) - 1 ELSE 2)
                /\ \E f \in [1..Len(alts) -> 1..Len(candidates)] :
                    /\ \A k \in 1..Len(alts) : alts[k] = candidates[f[k]]
                    /\ \A k, l \in 1..Len(alts) : k < l => f[k] < f[l]
                /\ \A k, l \in 1..Len(alts) :
                    k < l => alts[k].distances <= alts[l].distances]_vars

\* A report of a machine that is not the nearest candidate was answered with
\* two alternatives, the nearest candidate first
C6_Witness ==
    /\ reply.by = "report_rvm_status"
    /\ reply.status = Full
    /\ Len(reply.rows) = 2
    /\ reply.rows[1].distances < reply.rows[2].distances
    /\ \E i \in 1..Len(df) :
        /\ df[i].Name = reply.rvm_name
        /\ distance(df[i].Longitude, df[i].Latitude, reply.rows[1].Longitude,
                    reply.rows[1].Latitude) > 0

\* C7: the Report response contains an alternative-machines section if and
\* only if the reported status, compared case-insensitively, is not "Working".
C7_AlternativesIffNotWorking ==
    reply.by = "report_rvm_status" =>
        (reply.alternatives <=> reply.status \notin WorkingAnyCase)

\* "working" in lower case was reported and answered without alternatives
C7_Witness ==
    /\ reply.by = "report_rvm_status"
    /\ reply.status = working
    /\ ~reply.alternatives

\* The flows user u is in
ActiveFlows(u) == {h \in HandlerSet : conv[u][h] # END}

\* C8: each session is in at most one of the Find, Report and Reminder flows.
C8_OneFlow == \A u \in Users : Cardinality(ActiveFlows(u)) <= 1

\* The report command was sent mid-way through a Report flow: the flow is
\* back at its first state and no other flow is active
C8_Witness ==
    \E u \in Users :
        /\ ActiveFlows(u) = {"report_rvm_conv_handler"}
        /\ conv[u]["report_rvm_conv_handler"] = REPORT_LOCATION
        /\ "selected_rvm" \in DOMAIN user_data[u]

\* C9: immediately after a flow's entry step (the find, report or set
\* command) the session's scratch data holds no value written earlier.
C9_EntryDiscardsScratch ==
    (update.kind = "command" /\ update.command \in {"find", "report", "set"}) =>
        user_data[update.user] = EmptyDict

\* C10: in every state where the session has no active flow, its scratch
\* data holds no entries.
C10_IdleScratchEmpty ==
    \A u \in Users : ActiveFlows(u) = {} => user_data[u] = EmptyDict

\* The step about to be taken is user u's cancel command
CancelStepOf(u) ==
    /\ update'.user = u
    /\ update'.kind = "command"
    /\ update'.command = "cancel"

\* C11: in every non-terminal state of each of the three flows, the cancel
\* command clears the session's scratch data and leaves the session with no
\* active flow, and the Registry is unchanged.
C11_CancelClears ==
    [][\A u \in Users :
        (CancelStepOf(u) /\ ActiveFlows(u) # {}) =>
            /\ user_data'[u] = EmptyDict
            /\ \A h \in HandlerSet : conv'[u][h] = END
            /\ df' = df]_vars

\* The cancel command was handled right after the status prompt of the Report
\* flow: the session was in AwaitingStatus with candidates and a selection
C11_Witness ==
    /\ update.kind = "command"
    /\ update.command = "cancel"
    /\ reply.by = "report_rvm_choice"
    /\ reply.to = update.user
    /\ user_data[update.user] = EmptyDict
    /\ ActiveFlows(update.user) = {}

\* The step about to be taken is user u's text in Find's AwaitingLocation state
FindTextStepOf(u) ==
    /\ conv[u]["find_rvm_conv_handler"] = FIND_RVM_LOCATION
    /\ update'.user = u
    /\ update'.kind = "text"

\* A query of letters, digits and spaces only, not empty without its spaces
LettersDigitsSpaces(t) ==
    /\ \A i \in 1..Len(t) :
        t[i] \in Chars(UpperCase) \cup Chars(LowerCase) \cup Chars(Decimal) \cup {" "}
    /\ \E i \in 1..Len(t) : t[i] # " "

\* C12: in Find's AwaitingLocation state a text query with a character other
\* than letters, digits and spaces (or empty without its spaces) is rejected
\* before any call to the geocoder and the session stays in AwaitingLocation;
\* the geocoder is never called with a query that fails the validation.
C12_ValidatedBeforeLookup ==
    /\ [][\A u \in Users :
            (FindTextStepOf(u) /\ ~LettersDigitsSpaces(update'.text)) =>
                /\ ~request'.made
                /\ conv'[u]["find_rvm_conv_handler"] = FIND_RVM_LOCATION]_vars
    /\ [](request.made => LettersDigitsSpaces(request.query))

\* The query "!!!" was answered with the re-prompt and no call was made
C12_Witness ==
    /\ update.kind = "text"
    /\ update.text = <<"!", "!", "!">>
    /\ reply.by = "find_rvm_location"
    /\ ~request.made
    /\ conv[update.user]["find_rvm_conv_handler"] = FIND_RVM_LOCATION

\* The decimal text of n, and its two-digit text
NumberText(n) ==
    IF n < 10 THEN <<Decimal[n + 1]>>
    ELSE <<Decimal[(n \div 10) + 1], Decimal[(n % 10) + 1]>>
TwoDigits(n) == <<Decimal[(n \div 10) + 1], Decimal[(n % 10) + 1]>>

\* The text without its leading zeros
RECURSIVE StripZeros(_)
StripZeros(t) == IF Len(t) > 0 /\ t[1] = "0" THEN StripZeros(Tail(t)) ELSE t

\* A base-10 integer in [1,31]
DayText(t) == StripZeros(t) \in {NumberText(n) : n \in 1..31}

\* Exactly 4 digits HHMM with HH in [0,23] and MM in [0,59]
TimeText(t) ==
    /\ Len(t) = 4
    /\ SubSeq(t, 1, 2) \in {TwoDigits(n) : n \in 0..23}
    /\ SubSeq(t, 3, 4) \in {TwoDigits(n) : n \in 0..59}

\* The step about to be taken is user u's text in the given Reminder state
ReminderStepOf(u, state) ==
    /\ conv[u]["reminder_conv_handler"] = state
    /\ update'.user = u
    /\ update'.kind = "text"

\* C13: in AwaitingDay an input advances the session to AwaitingTime and is
\* stored as the day if and only if it is a base-10 integer in [1,31]; every
\* other input leaves the session in AwaitingDay and stores no day.
C13_DayValidation ==
    [][\A u \in Users :
        ReminderStepOf(u, REMINDER_DAY) =>
            IF DayText(update'.text)
            THEN /\ conv'[u]["reminder_conv_handler"] = REMINDER_TIME
                 /\ "reminder_day" \in DOMAIN user_data'[u]
                 /\ user_data'[u]["reminder_day"] = update'.text
            ELSE /\ conv'[u]["reminder_conv_handler"] = REMINDER_DAY
                 /\ user_data'[u] = user_data[u]]_vars

\* The day "32" was refused: the session is in AwaitingDay without a day
C13_Witness ==
    /\ update.kind = "text"
    /\ update.text = <<"3", "2">>
    /\ reply.by = "reminder_day"
    /\ conv[update.user]["reminder_conv_handler"] = REMINDER_DAY
    /\ DOMAIN user_data[update.user] = {"reminder_freq"}

\* C14: in AwaitingTime an input completes the flow if and only if it is
\* exactly 4 digits HHMM with HH in [0,23] and MM in [0,59]; every other
\* input leaves the session in AwaitingTime with its stored frequency and
\* day unchanged.
C14_TimeValidation ==
    [][\A u \in Users :
        ReminderStepOf(u, REMINDER_TIME) =>
            IF TimeText(update'.text)
            THEN /\ \A h \in HandlerSet : conv'[u][h] = END
                 /\ reply'.by = "reminder_time"
            ELSE /\ conv'[u]["reminder_conv_handler"] = REMINDER_TIME
                 /\ {"reminder_freq", "reminder_day"} \subseteq DOMAIN user_data'[u]
                 /\ user_data'[u]["reminder_freq"] = user_data[u]["reminder_freq"]
                 /\ user_data'[u]["reminder_day"] = user_data[u]["reminder_day"]]_vars

\* The time "2400" was refused: the session is in AwaitingTime with its day
C14_Witness ==
    /\ update.kind = "text"
    /\ update.text = <<"2", "4", "0", "0">>
    /\ reply.by = "reminder_time"
    /\ conv[update.user]["reminder_conv_handler"] = REMINDER_TIME
    /\ user_data[update.user]["reminder_day"] = <<"3", "1">>

\* C15: after the process has shut down, by a normal exit or by a termination
\* signal arriving at any point of the run, data.csv holds the Registry as it
\* was in memory at the shutdown, with every status written before it.
C15_SavedAtShutdown ==
    pc = "exited" =>
        /\ Len(data_csv) = Len(df) + 1
        /\ \A i \in 1..Len(df) : \A k \in 1..Len(Columns) : data_csv[i + 1][k] = df[i][Columns[k]]

\* The process has exited after a report set a record Full, and the file has it
C15_Witness ==
    /\ pc = "exited"
    /\ reply.by = "report_rvm_status"
    /\ \E i \in 1..Len(df) : df[i].Status = Full /\ data_csv[i + 1][7] = Full

\* C16: reports of different sessions on the same record are written one
\* after the other and the last one wins: a submission sets the record to
\* its status whatever the record held, it leaves the other session's
\* pending report as it was, and after the submission processed last the
\* record holds that submission's status.
C16_LastReportWins ==
    /\ [][\A u \in Users : \A v \in Users \ {u} :
            (/\ StatusStepOf(u)
             /\ conv[v]["report_rvm_conv_handler"] = REPORT_STATUS
             /\ "selected_rvm" \in DOMAIN user_data[v]
             /\ user_data[v]["selected_rvm"] = user_data[u]["selected_rvm"]) =>
                /\ \A i \in 1..Len(df') :
                    df'[i].Name = user_data[u]["selected_rvm"] => df'[i].Status = update'.text
                /\ conv'[v] = conv[v]
                /\ user_data'[v] = user_data[v]]_vars
    /\ []((reply.by = "report_rvm_status" /\ update.kind = "text") =>
            /\ reply.to = update.user
            /\ \E i \in 1..Len(df) : df[i].Name = reply.rvm_name
            /\ \A i \in 1..Len(df) : df[i].Name = reply.rvm_name => df[i].Status = update.text)

\* u2's report of Working on a record was processed after a report of Full on
\* it, while u1's session has the same record selected, stored as Full
C16_Witness ==
    /\ update.user = "u2"
    /\ update.kind = "text"
    /\ update.text = Working
    /\ reply.by = "report_rvm_status"
    /\ conv["u1"]["report_rvm_conv_handler"] = REPORT_STATUS
    /\ user_data["u1"]["selected_rvm"] = reply.rvm_name
    /\ \E k \in 1..Len(user_data["u1"]["nearest_rvms"]) :
        /\ user_data["u1"]["nearest_rvms"][k].Name = reply.rvm_name
        /\ user_data["u1"]["nearest_rvms"][k].Status = Full
    /\ \E i \in 1..Len(df) : df[i].Name = reply.rvm_name /\ df[i].Status = Working

\* The names of the candidates user u's session has stored
CandidateNames(u) ==
    IF "nearest_rvms" \in DOMAIN user_data[u]
    THEN {user_data[u]["nearest_rvms"][k].Name : k \in 1..Len(user_data[u]["nearest_rvms"])}
    ELSE {}

\* C17: in AwaitingMachineChoice an input that is not the name of one of the
\* session's stored candidates is rejected: the session stays in
\* AwaitingMachineChoice, the input is not stored as the session's selection,
\* and the Registry is unchanged.
C17_NonCandidateRejected ==
    [][\A u \in Users :
        (/\ conv[u]["report_rvm_conv_handler"] = REPORT_RVM
         /\ update'.user = u
         /\ update'.kind = "text"
         /\ update'.text \notin CandidateNames(u)) =>
            /\ conv'[u]["report_rvm_conv_handler"] = REPORT_RVM
            /\ ~("selected_rvm" \in DOMAIN user_data'[u] /\ user_data'[u]["selected_rvm"] = update'.text)
            /\ df' = df]_vars

\* User u sends a location or a text that completes the Find flow with a result
FindCompletes(u) ==
    /\ FindRvmLocation(u, Locations, Queries)
    /\ conv'[u]["find_rvm_conv_handler"] = END
    /\ reply'.by = "find_nearest_rvms"

\* C18: when the geocoder lookup for a valid text query in the Find flow's
\* AwaitingLocation state fails (zero results, or an unparseable or malformed
\* response), the session remains in AwaitingLocation, no nearest-machine
\* result is rendered, and a later valid input of the session can still
\* complete the flow.
C18_LookupFailureRetries ==
    /\ [][\A u \in Users :
            (FindTextStepOf(u) /\ request'.made /\ request'.response \in Failures) =>
                /\ conv'[u]["find_rvm_conv_handler"] = FIND_RVM_LOCATION
                /\ reply'.by # "find_nearest_rvms"
                /\ reply'.rows = <<>>]_vars
    /\ []((update.kind = "text" /\ request.made /\ request.response \in Failures) =>
            ENABLED FindCompletes(update.user))

\* A lookup answered with a malformed document: the session is still in
\* AwaitingLocation and the error handler has replied
C18_Witness ==
    /\ update.kind = "text"
    /\ request.made
    /\ request.response = "malformed"
    /\ reply.by = "error_handler"
    /\ conv[update.user]["find_rvm_conv_handler"] = FIND_RVM_LOCATION

\* C19: whenever a session is in the Report flow's AwaitingStatus state, its
\* stored selection is the name of one of its stored candidates and the name
\* of a record of the Registry, whatever valid and invalid inputs it sent in
\* AwaitingMachineChoice.
C19_SelectionIsCandidate ==
    \A u \in Users :
        conv[u]["report_rvm_conv_handler"] = REPORT_STATUS =>
            /\ {"nearest_rvms", "selected_rvm"} \subseteq DOMAIN user_data[u]
            /\ user_data[u]["selected_rvm"] \in CandidateNames(u)
            /\ \E i \in 1..Len(df) : df[i].Name = user_data[u]["selected_rvm"]

\* A session reached AwaitingStatus by naming the second of its candidates
C19_Witness ==
    \E u \in Users :
        /\ conv[u]["report_rvm_conv_handler"] = REPORT_STATUS
        /\ reply.by = "report_rvm_choice"
        /\ reply.to = u
        /\ Len(user_data[u]["nearest_rvms"]) >= 2
        /\ user_data[u]["selected_rvm"] = user_data[u]["nearest_rvms"][2].Name

\* C20: the status shown for each alternative machine in a Report response is
\* that machine's status in the Registry when the response is produced, also
\* when another session's report changed it after the candidates were stored.
C20_AlternativesCurrent ==
    (reply.by = "report_rvm_status" /\ reply.alternatives) =>
        \A k \in 1..Len(reply.rows) :
            \E i \in 1..Len(df) :
                /\ df[i].Name = reply.rows[k].Name
                /\ df[i].Status = reply.rows[k].Status

====
